---- MODULE Spec2Model ----
(***************************************************************************)
(* Model of devel-common/src/sphinx_exts/docroles.py: the Sphinx role      *)
(* :template-fields:`pkg.mod.Class`.                                       *)
(*                                                                         *)
(* Strings are sequences of tokens.  A token is either one character of    *)
(* the input alphabet or one literal chunk of a format string, so that     *)
(* concatenation is \o and splitting is computed on the sequence.          *)
(***************************************************************************)
EXTENDS Integers, Sequences, FiniteSets, TLC

\* ------------------------------------------------------------------ bounds
MaxLen == 3        \* longest role argument / fullname, in tokens
MaxFields == 2     \* longest template_fields list of the class
MaxLine == 2       \* largest source line number of a role occurrence
NumInv == 2        \* role invocations that may interleave (SpecPar)

\* ------------------------------------------------------------------ inputs
NUL == "NUL"       \* the \x00 with which docutils encodes a backslash escape
BQ == "BQ"         \* the backquote that delimits a role's argument
Alphabet == {"m", "C", ".", NUL}
Texts == UNION {[1..n -> Alphabet] : n \in 0..MaxLen}
ParTexts == {<<"m", ".", "C">>, <<"m", ".", "m", ".", "C">>, <<"C">>}
ParFieldLists == {<<>>, <<<<"a">>, <<"b">>>>}
Fields == {<<"a">>, <<"b">>}
FieldLists == UNION {[1..n -> Fields] : n \in 0..MaxFields}
Linenos == 1..MaxLine
Procs == 1..NumInv

ModM == <<"m">>    \* the one module name that may exist on disk
ClsC == <<"C">>    \* the one attribute name module m may define

VARIABLES
    config,          \* env.config.autodoc_mock_imports: set of module names
    installed,       \* names of the modules that a real import can load
    classAttr,       \* attribute C of module m: "absent", "falsy" or "class"
    templateFields,  \* attribute template_fields of class C
    preloaded,       \* modules imported before the first invocation
    sysModules,      \* sys.modules: module name -> "real" | "mock"
    metaPath,        \* the mock finders on sys.meta_path, newest first
    pc,              \* where each role invocation stands
    rawtext, text, lineno,               \* arguments of template_field_role
    modname, classname, mod, clazz,      \* locals of get_template_field
    exc,             \* the exception get_template_field raised, if any
    ret,             \* the list get_template_field returned, if any
    result,          \* what template_field_role handed back to the host
    callNo, first    \* the same occurrence expanded a second time

worldVars == <<config, installed, classAttr, templateFields, preloaded>>
importVars == <<sysModules, metaPath>>
argVars == <<rawtext, text, lineno>>
localVars == <<modname, classname, mod, clazz>>
vars == <<config, installed, classAttr, templateFields, preloaded, sysModules,
          metaPath, pc, rawtext, text, lineno, modname, classname,
          mod, clazz, exc, ret, result, callNo, first>>

\* ------------------------------------------------------------- exceptions
NoExc == [kind |-> "none", msg |-> <<>>]
Exc(k, m) == [kind |-> k, msg |-> m]
NoResult == [kind |-> "none", nodes |-> <<>>, msgs |-> <<>>, exc |-> NoExc]
NoOutcome == [exc |-> NoExc, ret |-> <<>>]

\* --------------------------------------------------------- string helpers
StartsWith(s, p) == Len(p) <= Len(s) /\ SubSeq(s, 1, Len(p)) = p

\* ''.join(text.split(sep)): every non-overlapping occurrence of sep, found
\* left to right, is dropped.
RECURSIVE RemoveAll(_, _)
RemoveAll(s, sep) ==
    IF s = <<>> THEN <<>>
    ELSE IF StartsWith(s, sep) THEN RemoveAll(SubSeq(s, Len(sep) + 1, Len(s)), sep)
    ELSE <<Head(s)>> \o RemoveAll(Tail(s), sep)

\* docutils.utils.unescape(text): null-escaped whitespace goes, then the nulls.
unescape(t) == RemoveAll(RemoveAll(RemoveAll(t, <<NUL, " ">>), <<NUL, "\n">>), <<NUL>>)

DotPositions(s) == {j \in 1..Len(s) : s[j] = "."}
LastDot(s) == CHOOSE j \in DotPositions(s) : \A k \in DotPositions(s) : k <= j

\* fullname.rsplit(".", 1): the list of parts, one part when there is no "."
rsplit(s) ==
    IF DotPositions(s) = {} THEN <<s>>
    ELSE <<SubSeq(s, 1, LastDot(s) - 1), SubSeq(s, LastDot(s) + 1, Len(s))>>

\* --------------------------------------------------------- import system
\* MockFinder.find_spec: a name is mocked when it is one of modnames or lies
\* below one of them.
MockMatches(modnames, name) ==
    \E p \in modnames : name = p \/ StartsWith(name, p \o <<".">>)

IsBoundary(name, j) == j = Len(name) \/ name[j + 1] = "."

\* importlib's _find_and_load for the dotted name `name`, parents first: a
\* cached module is taken from sys.modules without asking any finder; else
\* the first finder of sys.meta_path that knows the name loads it (a mock
\* finder, when one is installed, stands before the real ones and records
\* the name in its mocked_modules); else the import fails, and the parents
\* imported so far stay imported.
RECURSIVE find_and_load(_, _, _, _)
find_and_load(name, j, sys, mp) ==
    IF j > Len(name) THEN [ok |-> TRUE, sys |-> sys, mp |-> mp]
    ELSE IF ~IsBoundary(name, j) THEN find_and_load(name, j + 1, sys, mp)
    ELSE LET n == SubSeq(name, 1, j) IN
         IF n \in DOMAIN sys THEN find_and_load(name, j + 1, sys, mp)
         ELSE IF mp # <<>> /\ MockMatches(mp[1].modnames, n)
         THEN find_and_load(name, j + 1,
                  [x \in DOMAIN sys \cup {n} |-> IF x = n THEN "mock" ELSE sys[x]],
                  [mp EXCEPT ![1].mocked_modules = @ \cup {n}])
         ELSE IF n \in installed
         THEN find_and_load(name, j + 1,
                  [x \in DOMAIN sys \cup {n} |-> IF x = n THEN "real" ELSE sys[x]],
                  mp)
         ELSE [ok |-> FALSE, sys |-> sys, mp |-> mp]

\* sphinx.ext.autodoc.importer.import_module(modname): the module, or
\* ImportError for whatever importlib raised (an empty or relative name too).
import_module(name, sys, mp) ==
    IF name = <<>> \/ Head(name) = "."
    THEN [ok |-> FALSE, sys |-> sys, mp |-> mp, mod |-> "none"]
    ELSE LET r == find_and_load(name, 1, sys, mp) IN
         [ok |-> r.ok, sys |-> r.sys, mp |-> r.mp,
          mod |-> IF r.ok THEN r.sys[name] ELSE "none"]

\* A faulty invalidate: every module below a mocked name leaves sys.modules,
\* also one that was really imported before.
invalidate_by_prefix(finder, sys) ==
    [x \in {y \in DOMAIN sys : ~MockMatches(finder.modnames, y)} |-> sys[x]]

\* MockFinder.invalidate: the modules this finder mocked leave sys.modules.
invalidate(finder, sys) ==
    [x \in DOMAIN sys \ finder.mocked_modules |-> sys[x]]

FinderPos(mp, i) == CHOOSE k \in 1..Len(mp) : mp[k].owner = i
HasFinder(mp, i) == \E k \in 1..Len(mp) : mp[k].owner = i
RemoveAt(s, k) == SubSeq(s, 1, k - 1) \o SubSeq(s, k + 1, Len(s))

\* A faulty exit without try/finally: a raising import leaves the finder on.
mock_exit_no_finally(mp, i, raised) ==
    IF raised THEN mp ELSE RemoveAt(mp, FinderPos(mp, i))

\* Leaving `with mock(...)`: the finder comes off sys.meta_path whether the
\* body raised or not.
mock_exit(mp, i, raised) == RemoveAt(mp, FinderPos(mp, i))

\* ------------------------------------------------------ attribute lookup
\* getattr(mod, classname): a mocked module answers every name with a mock
\* object, whose len() is 0; the real module m has at most the attribute C.
HasAttr(m, name) == m = "mock" \/ (m = "real" /\ name = ClsC /\ classAttr # "absent")
getattr_class(m, name) == IF m = "mock" THEN "mockobj" ELSE classAttr
Truthy(obj) == obj = "class"

\* A faulty test `template_fields is None`, which lets an empty list through.
template_fields_is_none(tf) == tf.kind = "none"

\* `not template_fields` (line 54): None and the empty sequence are falsy.
not_template_fields(tf) == tf.kind = "none" \/ (tf.kind = "seq" /\ tf.val = <<>>)

\* ---------------------------------------------------------------- messages
ErrFindingClass(cn, mn) ==
    <<"Error finding ">> \o cn \o <<" class in ">> \o mn \o <<" module.">>
ErrNoTemplateFields(cn, mn) ==
    <<"Could not find the template fields for ">> \o cn \o <<" class in ">>
        \o mn \o <<" module.">>
\* A faulty message that leaves the exception text out.
error_text_no_details(t, e) == <<"invalid class name ">> \o t

\* f"invalid class name {text} \n{e}" (line 94)
error_text(t, e) == <<"invalid class name ">> \o t \o <<" ", "\n">> \o e.msg

\* ------------------------------------------------------------------- nodes
\* A docutils node: its tag, rawsource, own text (Text and system_message),
\* children, line (0: none) and the attribute rawtext (inline only).
Node(tag, rawsource, txt, children, line, raw) ==
    [tag |-> tag, rawsource |-> rawsource, text |-> txt, children |-> children,
     line |-> line, rawtext |-> raw]
TextNode(t) == Node("Text", <<>>, t, <<>>, 0, <<>>)
\* nodes.literal(field, "", nodes.Text(field))
literal(field) == Node("literal", field, <<>>, <<TextNode(field)>>, 0, <<>>)
\* inliner.reporter.error(msg, line=lineno)
system_message(msg, line) == Node("system_message", <<>>, msg, <<>>, line, <<>>)
\* inliner.problematic(rawtext, rawtext, msg)
problematic(raw, msg) == Node("problematic", raw, <<>>, <<TextNode(raw)>>, 0, <<>>)

\* The loop of lines 101-104: ", " before every field but the first.
RECURSIVE RenderChildren(_, _)
RenderChildren(fields, i) ==
    IF i > Len(fields) THEN <<>>
    ELSE (IF i # 1 THEN <<TextNode(<<", ">>)>> ELSE <<>>)
         \o <<literal(fields[i])>> \o RenderChildren(fields, i + 1)
\* A faulty loop whose test `i != 0` is gone: ", " before the first field too.
render_sep_always(raw, fields) ==
    Node("inline", <<>>, <<>>,
         [k \in 1..(2 * Len(fields)) |->
            IF k % 2 = 1 THEN TextNode(<<", ">>) ELSE literal(fields[k \div 2])],
         0, raw)

\* nodes.inline(rawtext=rawtext) and the children the loop appends
render(raw, fields) == Node("inline", <<>>, <<>>, RenderChildren(fields, 1), 0, raw)

\* ------------------------------------------------------------------- world
TemplateFieldValues ==
    {[kind |-> "absent", val |-> <<>>], [kind |-> "none", val |-> <<>>]}
        \cup {[kind |-> "seq", val |-> l] : l \in FieldLists}

InitWorld ==
    /\ config \in SUBSET {ModM}
    /\ installed \in SUBSET {ModM}
    /\ classAttr \in {"absent", "falsy", "class"}
    /\ installed = {} => classAttr = "absent"
    /\ templateFields \in TemplateFieldValues
    /\ classAttr # "class" => templateFields.kind = "absent"
    /\ preloaded \in SUBSET installed

Init ==
    /\ InitWorld
    /\ sysModules = [n \in preloaded |-> "real"]
    /\ metaPath = <<>>
    /\ pc = [i \in Procs |-> "idle"]
    /\ rawtext = [i \in Procs |-> <<>>]
    /\ text = [i \in Procs |-> <<>>]
    /\ lineno = [i \in Procs |-> 0]
    /\ modname = [i \in Procs |-> <<>>]
    /\ classname = [i \in Procs |-> <<>>]
    /\ mod = [i \in Procs |-> "none"]
    /\ clazz = [i \in Procs |-> "none"]
    /\ exc = [i \in Procs |-> NoExc]
    /\ ret = [i \in Procs |-> <<>>]
    /\ result = [i \in Procs |-> NoResult]
    /\ callNo = [i \in Procs |-> 0]
    /\ first = [i \in Procs |-> NoOutcome]

\* ----------------------------------------------------------------- actions
\* The host calls template_field_role (lines 60-91): the argument text is
\* unescaped and get_template_field(app.env, text) is entered.
RoleStart(i, T, L) ==
    /\ pc[i] = "idle"
    /\ \E t \in T, l \in L :
        /\ rawtext' = [rawtext EXCEPT ![i] = <<":template-fields:", BQ>> \o t \o <<BQ>>]
        /\ text' = [text EXCEPT ![i] = unescape(t)]
        /\ lineno' = [lineno EXCEPT ![i] = l]
    /\ callNo' = [callNo EXCEPT ![i] = 1]
    /\ pc' = [pc EXCEPT ![i] = "split"]
    /\ UNCHANGED <<worldVars, importVars, localVars, exc, ret, result, first>>

\* Line 43: modname, classname = fullname.rsplit(".", 1)
Split(i) ==
    /\ pc[i] = "split"
    /\ LET parts == rsplit(text[i]) IN
        IF Len(parts) = 2
        THEN /\ modname' = [modname EXCEPT ![i] = parts[1]]
             /\ classname' = [classname EXCEPT ![i] = parts[2]]
             /\ pc' = [pc EXCEPT ![i] = "mock_enter"]
             /\ exc' = exc
        ELSE /\ exc' = [exc EXCEPT ![i] =
                    Exc("ValueError", <<"not enough values to unpack (expected 2, got 1)">>)]
             /\ pc' = [pc EXCEPT ![i] = "role_except"]
             /\ UNCHANGED <<modname, classname>>
    /\ UNCHANGED <<worldVars, importVars, argVars, mod, clazz, ret, result, callNo, first>>

\* Line 45, entering `with mock(env.config.autodoc_mock_imports)`: a new
\* MockFinder goes to the front of sys.meta_path.
MockEnter(i) ==
    /\ pc[i] = "mock_enter"
    /\ metaPath' = <<[owner |-> i, modnames |-> config, mocked_modules |-> {}]>>
                       \o metaPath
    /\ pc' = [pc EXCEPT ![i] = "import"]
    /\ UNCHANGED <<worldVars, sysModules, argVars, localVars, exc, ret, result,
                   callNo, first>>

\* Line 46: mod = import_module(modname)
Import(i) ==
    /\ pc[i] = "import"
    /\ LET r == import_module(modname[i], sysModules, metaPath) IN
        /\ sysModules' = r.sys
        /\ metaPath' = r.mp
        /\ mod' = [mod EXCEPT ![i] = r.mod]
        /\ exc' = [exc EXCEPT ![i] =
                IF r.ok THEN NoExc
                ELSE Exc("ImportError", <<"No module named ">> \o modname[i])]
    /\ pc' = [pc EXCEPT ![i] = "mock_exit"]
    /\ UNCHANGED <<worldVars, argVars, modname, classname, clazz, ret, result,
                   callNo, first>>

\* Leaving the with block of lines 45-46, normally or by the exception of
\* the import, which then leaves get_template_field.
MockExit(i) ==
    /\ pc[i] = "mock_exit"
    /\ sysModules' = invalidate(metaPath[FinderPos(metaPath, i)], sysModules)
    /\ metaPath' = mock_exit(metaPath, i, exc[i] # NoExc)
    /\ pc' = [pc EXCEPT ![i] = IF exc[i] # NoExc THEN "role_except" ELSE "getclass"]
    /\ UNCHANGED <<worldVars, argVars, localVars, exc, ret, result, callNo, first>>

\* Lines 48-50: clazz = getattr(mod, classname); if not clazz: raise
GetClass(i) ==
    /\ pc[i] = "getclass"
    /\ IF ~HasAttr(mod[i], classname[i])
       THEN /\ exc' = [exc EXCEPT ![i] = Exc("AttributeError",
                    <<"module has no attribute ">> \o classname[i])]
            /\ pc' = [pc EXCEPT ![i] = "role_except"]
            /\ clazz' = clazz
       ELSE LET c == getattr_class(mod[i], classname[i]) IN
            /\ clazz' = [clazz EXCEPT ![i] = c]
            /\ IF ~Truthy(c)
               THEN /\ exc' = [exc EXCEPT ![i] = Exc("RoleException",
                            ErrFindingClass(classname[i], modname[i]))]
                    /\ pc' = [pc EXCEPT ![i] = "role_except"]
               ELSE /\ exc' = exc
                    /\ pc' = [pc EXCEPT ![i] = "getfields"]
    /\ UNCHANGED <<worldVars, importVars, argVars, modname, classname, mod, ret,
                   result, callNo, first>>

\* Lines 52-57: template_fields = getattr(clazz, "template_fields"); raise
\* when it is falsy, else return list(template_fields)
GetFields(i) ==
    /\ pc[i] = "getfields"
    /\ IF templateFields.kind = "absent"
       THEN /\ exc' = [exc EXCEPT ![i] = Exc("AttributeError",
                    <<"type object has no attribute 'template_fields'">>)]
            /\ pc' = [pc EXCEPT ![i] = "role_except"]
            /\ ret' = ret
       ELSE IF not_template_fields(templateFields)
       THEN /\ exc' = [exc EXCEPT ![i] = Exc("RoleException",
                    ErrNoTemplateFields(classname[i], modname[i]))]
            /\ pc' = [pc EXCEPT ![i] = "role_except"]
            /\ ret' = ret
       ELSE /\ ret' = [ret EXCEPT ![i] = templateFields.val]
            /\ pc' = [pc EXCEPT ![i] = "role_render"]
            /\ exc' = exc
    /\ UNCHANGED <<worldVars, importVars, argVars, localVars, result, callNo, first>>

\* Lines 92-98: a RoleException becomes a reported error and a problematic
\* node; any other exception is not caught and leaves the role.
RoleExcept(i) ==
    /\ pc[i] = "role_except"
    /\ result' = [result EXCEPT ![i] =
            IF exc[i].kind = "RoleException"
            THEN LET msg == system_message(error_text(text[i], exc[i]), lineno[i]) IN
                 [kind |-> "returned", nodes |-> <<problematic(rawtext[i], msg)>>,
                  msgs |-> <<msg>>, exc |-> NoExc]
            ELSE [kind |-> "raised", nodes |-> <<>>, msgs |-> <<>>, exc |-> exc[i]]]
    /\ pc' = [pc EXCEPT ![i] = "done"]
    /\ UNCHANGED <<worldVars, importVars, argVars, localVars, exc, ret, callNo, first>>

\* Lines 100-106: the inline node with its literals and separators.
RoleRender(i) ==
    /\ pc[i] = "role_render"
    /\ result' = [result EXCEPT ![i] =
            [kind |-> "returned", nodes |-> <<render(rawtext[i], ret[i])>>,
             msgs |-> <<>>, exc |-> NoExc]]
    /\ pc' = [pc EXCEPT ![i] = "done"]
    /\ UNCHANGED <<worldVars, importVars, argVars, localVars, exc, ret, callNo, first>>

\* The host expands the same occurrence again (a rebuild of the document):
\* get_template_field runs a second time on the same fullname.
RoleAgain(i) ==
    /\ pc[i] = "done"
    /\ callNo[i] = 1
    /\ first' = [first EXCEPT ![i] = [exc |-> exc[i], ret |-> ret[i]]]
    /\ callNo' = [callNo EXCEPT ![i] = 2]
    /\ modname' = [modname EXCEPT ![i] = <<>>]
    /\ classname' = [classname EXCEPT ![i] = <<>>]
    /\ mod' = [mod EXCEPT ![i] = "none"]
    /\ clazz' = [clazz EXCEPT ![i] = "none"]
    /\ exc' = [exc EXCEPT ![i] = NoExc]
    /\ ret' = [ret EXCEPT ![i] = <<>>]
    /\ result' = [result EXCEPT ![i] = NoResult]
    /\ pc' = [pc EXCEPT ![i] = "split"]
    /\ UNCHANGED <<worldVars, importVars, argVars>>

\* The invocation is over; its frame is gone.
Finish(i) ==
    /\ pc[i] = "done"
    /\ pc' = [pc EXCEPT ![i] = "idle"]
    /\ rawtext' = [rawtext EXCEPT ![i] = <<>>]
    /\ text' = [text EXCEPT ![i] = <<>>]
    /\ lineno' = [lineno EXCEPT ![i] = 0]
    /\ modname' = [modname EXCEPT ![i] = <<>>]
    /\ classname' = [classname EXCEPT ![i] = <<>>]
    /\ mod' = [mod EXCEPT ![i] = "none"]
    /\ clazz' = [clazz EXCEPT ![i] = "none"]
    /\ exc' = [exc EXCEPT ![i] = NoExc]
    /\ ret' = [ret EXCEPT ![i] = <<>>]
    /\ result' = [result EXCEPT ![i] = NoResult]
    /\ callNo' = [callNo EXCEPT ![i] = 0]
    /\ first' = [first EXCEPT ![i] = NoOutcome]
    /\ UNCHANGED <<worldVars, importVars>>

\* One document at a time: a single invocation runs to its end.
Next ==
    \/ RoleStart(1, Texts, Linenos)
    \/ Split(1)
    \/ MockEnter(1)
    \/ Import(1)
    \/ MockExit(1)
    \/ GetClass(1)
    \/ GetFields(1)
    \/ RoleExcept(1)
    \/ RoleRender(1)
    \/ RoleAgain(1)
    \/ Finish(1)

Spec == Init /\ [][Next]_vars

\* Several invocations in one interpreter, their steps interleaved; the
\* i-th occurrence of the role stands on line i.
InitPar == Init /\ templateFields.val \in ParFieldLists

NextPar ==
    \/ \E i \in Procs : RoleStart(i, ParTexts, {i})
    \/ \E i \in Procs : Split(i)
    \/ \E i \in Procs : MockEnter(i)
    \/ \E i \in Procs : Import(i)
    \/ \E i \in Procs : MockExit(i)
    \/ \E i \in Procs : GetClass(i)
    \/ \E i \in Procs : GetFields(i)
    \/ \E i \in Procs : RoleExcept(i)
    \/ \E i \in Procs : RoleRender(i)
    \/ \E i \in Procs : Finish(i)

SpecPar == InitPar /\ [][NextPar]_vars

\* ================================================================== claims
Done(i) == pc[i] = "done"
HasDot(t) == DotPositions(t) # {}
ModPart(t) == rsplit(t)[1]
ClassPart(t) == rsplit(t)[2]

\* The real module m is what an import of m yields: it is installed, and no
\* mock stands in for it (a mocked name yields the real module only when the
\* module was imported before the build reached the role).
RealModule(mn) ==
    /\ mn = ModM
    /\ ModM \in installed
    /\ MockMatches(config, ModM) => ModM \in preloaded

\* The fullname names class C of the real module m.
ResolvesToClass(t) ==
    /\ HasDot(t)
    /\ RealModule(ModPart(t))
    /\ ClassPart(t) = ClsC
    /\ classAttr = "class"

\* The Problematic outcome: one problematic node, one error at the role's line.
Problematic(i) ==
    /\ result[i].kind = "returned"
    /\ Len(result[i].nodes) = 1
    /\ result[i].nodes[1].tag = "problematic"
    /\ Len(result[i].msgs) = 1
    /\ result[i].msgs[1].tag = "system_message"
    /\ result[i].msgs[1].line = lineno[i]

\* The Rendered outcome: one inline container, no error.
Rendered(i) ==
    /\ result[i].kind = "returned"
    /\ Len(result[i].nodes) = 1
    /\ result[i].nodes[1].tag = "inline"
    /\ result[i].msgs = <<>>

\* C1: when the fullname resolves to a class whose template_fields is a
\* non-empty list of n names, the role returns one inline container whose
\* children are n literal spans and n-1 ", " texts, strictly alternating and
\* starting and ending with a span, the i-th span carrying the i-th field, and
\* an empty error list.
C1_RenderAlternates ==
    \A i \in Procs :
        (Done(i) /\ ResolvesToClass(text[i]) /\ templateFields.kind = "seq"
                 /\ templateFields.val # <<>>)
        => /\ Rendered(i)
           /\ LET ch == result[i].nodes[1].children
                  n == Len(templateFields.val)
              IN  /\ Len(ch) = 2 * n - 1
                  /\ \A k \in 1..Len(ch) :
                        IF k % 2 = 1
                        THEN /\ ch[k].tag = "literal"
                             /\ ch[k].rawsource = templateFields.val[(k + 1) \div 2]
                             /\ ch[k].children
                                  = <<TextNode(templateFields.val[(k + 1) \div 2])>>
                        ELSE /\ ch[k].tag = "Text"
                             /\ ch[k].text = <<", ">>

C1_Witness ==
    /\ Done(1) /\ ResolvesToClass(text[1])
    /\ templateFields.kind = "seq" /\ Len(templateFields.val) = 2
    /\ templateFields.val[1] # templateFields.val[2]
    /\ Rendered(1)

\* C2: when the module of the fullname cannot be imported and no mocked
\* prefix covers it, get_template_field fails with RoleException and the role
\* returns one problematic node and one error at the role's line.
C2_ImportFailureIsProblematic ==
    \A i \in Procs :
        (Done(i) /\ HasDot(text[i]) /\ ModPart(text[i]) \notin installed
                 /\ ~MockMatches(config, ModPart(text[i])))
        => exc[i].kind = "RoleException" /\ Problematic(i)

\* C3: when the class exists and has no template_fields attribute at all,
\* get_template_field fails with RoleException and the role returns a
\* problematic node and an error whose message holds "invalid class name <fqn>".
C3_NoAttributeIsProblematic ==
    \A i \in Procs :
        (Done(i) /\ ResolvesToClass(text[i]) /\ templateFields.kind = "absent")
        => /\ exc[i].kind = "RoleException"
           /\ Problematic(i)
           /\ StartsWith(result[i].msgs[1].text, <<"invalid class name ">> \o text[i])

\* C4: when the module imports and has no attribute of the class's name,
\* get_template_field fails with RoleException and the role ends Problematic.
C4_MissingClassIsProblematic ==
    \A i \in Procs :
        (Done(i) /\ HasDot(text[i]) /\ RealModule(ModPart(text[i]))
                 /\ (ClassPart(text[i]) # ClsC \/ classAttr = "absent"))
        => exc[i].kind = "RoleException" /\ Problematic(i)

\* C5: when the fullname holds no ".", get_template_field raises
\* RoleException and the role ends Problematic.
C5_NoDotIsProblematic ==
    \A i \in Procs :
        (Done(i) /\ ~HasDot(text[i]))
        => exc[i].kind = "RoleException" /\ Problematic(i)

\* C6: when the class exists and its template_fields is None or an empty
\* sequence, get_template_field fails with RoleException and the role ends
\* Problematic with no rendered container; and every list get_template_field
\* returns has at least one element.
C6_EmptyNeverReturned ==
    \A i \in Procs :
        /\ (Done(i) /\ ResolvesToClass(text[i])
                /\ (templateFields.kind = "none"
                        \/ (templateFields.kind = "seq" /\ templateFields.val = <<>>)))
           => /\ exc[i].kind = "RoleException"
              /\ Problematic(i)
              /\ \A k \in 1..Len(result[i].nodes) : result[i].nodes[k].tag # "inline"
        /\ (pc[i] = "role_render" \/ (Done(i) /\ exc[i] = NoExc))
           => Len(ret[i]) >= 1

C6_Witness ==
    /\ Done(1) /\ ResolvesToClass(text[1])
    /\ templateFields.kind = "seq" /\ templateFields.val = <<>>
    /\ exc[1].kind = "RoleException"
    /\ Problematic(1)

\* C7 as stated: the reported message is "invalid class name " + fqn + newline
\* + details, the fqn directly before the newline, at line lineno.
C7_MessageNoSpace ==
    \A i \in Procs :
        (Done(i) /\ result[i].msgs # <<>>)
        => /\ result[i].msgs[1].text
                = <<"invalid class name ">> \o text[i] \o <<"\n">> \o exc[i].msg
           /\ result[i].msgs[1].line = lineno[i]

\* C7 amended: the reported message is "invalid class name " + fqn + one space
\* + newline + the text of the RoleException, at line lineno.
C7_MessageFormat ==
    \A i \in Procs :
        (Done(i) /\ result[i].msgs # <<>>)
        => /\ exc[i].kind = "RoleException"
           /\ exc[i].msg \in {ErrFindingClass(ClassPart(text[i]), ModPart(text[i])),
                              ErrNoTemplateFields(ClassPart(text[i]), ModPart(text[i]))}
           /\ result[i].msgs[1].text
                = <<"invalid class name ">> \o text[i] \o <<" ">> \o <<"\n">> \o exc[i].msg
           /\ result[i].msgs[1].line = lineno[i]

C7_Witness ==
    /\ Done(1) /\ lineno[1] = MaxLine
    /\ Problematic(1)
    /\ exc[1].msg = ErrNoTemplateFields(ClsC, ModM)

\* C8: resolving the same fullname twice in a row, the world unchanged, gives
\* the same list both times or the same failure both times.
C8_SecondCallSame ==
    \A i \in Procs :
        (Done(i) /\ callNo[i] = 2) => first[i] = [exc |-> exc[i], ret |-> ret[i]]

C8_Witness ==
    /\ Done(1) /\ callNo[1] = 2
    /\ MockMatches(config, ModM) /\ ModM \in preloaded
    /\ first[1].ret # <<>> /\ ret[1] = first[1].ret

\* C9: the mock context of an invocation is active exactly while its import
\* runs: it is on sys.meta_path once, between entering and leaving the with
\* block, and on no other path of get_template_field or of the role.
C9_MockContextClosed ==
    \A i \in Procs :
        /\ HasFinder(metaPath, i) <=> pc[i] \in {"import", "mock_exit"}
        /\ Cardinality({k \in 1..Len(metaPath) : metaPath[k].owner = i}) <= 1

C9_Witness ==
    /\ pc[1] = "role_except" /\ exc[1].kind = "ImportError"
    /\ ~HasFinder(metaPath, 1)
    /\ pc[2] = "import" /\ HasFinder(metaPath, 2)

\* What the role returns for text t at line l and raw text raw when it runs
\* alone, from the world and the modules imported before the build.
AloneResult(raw, t, l) ==
    LET raised(k) == [kind |-> "raised", nodes |-> <<>>, msgs |-> <<>>,
                      exc |-> Exc(k, <<>>)]
        failed(e) == LET msg == system_message(error_text(t, e), l) IN
                     [kind |-> "returned", nodes |-> <<problematic(raw, msg)>>,
                      msgs |-> <<msg>>, exc |-> NoExc]
    IN
    IF ~HasDot(t) THEN raised("ValueError")
    ELSE LET mn == ModPart(t)
             cn == ClassPart(t)
             r == import_module(mn, [n \in preloaded |-> "real"],
                      <<[owner |-> 0, modnames |-> config, mocked_modules |-> {}]>>)
         IN
         IF ~r.ok THEN raised("ImportError")
         ELSE IF r.mod = "mock" THEN failed(Exc("RoleException", ErrFindingClass(cn, mn)))
         ELSE IF cn # ClsC \/ classAttr = "absent" THEN raised("AttributeError")
         ELSE IF classAttr = "falsy"
              THEN failed(Exc("RoleException", ErrFindingClass(cn, mn)))
         ELSE IF templateFields.kind = "absent" THEN raised("AttributeError")
         ELSE IF templateFields.kind = "none" \/ templateFields.val = <<>>
              THEN failed(Exc("RoleException", ErrNoTemplateFields(cn, mn)))
         ELSE [kind |-> "returned", nodes |-> <<render(raw, templateFields.val)>>,
               msgs |-> <<>>, exc |-> NoExc]

SameAsAlone(i) ==
    LET a == AloneResult(rawtext[i], text[i], lineno[i]) IN
    /\ result[i].kind = a.kind
    /\ result[i].nodes = a.nodes
    /\ result[i].msgs = a.msgs
    /\ result[i].exc.kind = a.exc.kind

ResultsAsAlone == \A i \in Procs : Done(i) => SameAsAlone(i)

====
